---- MODULE Spec2Model ----
(***************************************************************************)
(* Model of Table.prototype.mutate (src/src/backup.ts, 1441-1518): the     *)
(* batched-mutation retry engine.                                          *)
(*                                                                         *)
(* Entries are object references.  The submitted sequence may hold the     *)
(* same object at several positions; entryToIndex is a Map keyed by the    *)
(* object, so it keeps the LAST position of each object.                   *)
(*                                                                         *)
(* Indices are 1-based here (TLA+ sequences); index i of the model is      *)
(* index i-1 of the JavaScript arrays and of the wire "index" field.       *)
(*                                                                         *)
(* The transport (requestStream) is the environment.  For one attempt it   *)
(* emits 'request' events (one per request the transport actually sends),  *)
(* then 'data' events carrying per-entry statuses addressed by batch       *)
(* position (any order, each position at most once per attempt), then      *)
(* exactly one of 'end' or 'error'.  'error' may come at any moment, also  *)
(* before any 'request'; 'data' and 'end' need a request to have been sent *)
(* and 'end' needs a status for every position of the batch.               *)
(***************************************************************************)
EXTENDS Integers, Sequences, FiniteSets, TLC

\* ---------------------------------------------------------------- bounds
MaxEntries == 2          \* longest submitted entry sequence
MaxRetriesOption == 1    \* largest explicit value of table.maxRetries
MaxRequestEvents == 2    \* most 'request' events the transport emits per attempt
MaxMessageLen == 2       \* most per-entry results in one 'data' message
IssuedCap == 6           \* the observer's attempt counter saturates here
MaxKeyLen == 2           \* longest row key / key prefix
MaxRanges == 2           \* most ranges in a caller's options.ranges
MaxKeys == 2             \* most keys in a caller's options.keys
MaxReadCalls == 2        \* createReadStream calls made with one options object
MaxChunks == 3           \* chunks the store sends on one read stream
MaxChunksPerResponse == 3 \* chunks in one response message
MaxRows == 2             \* rows the store starts on one read stream
MaxCellValue == 2        \* distinct cell values

\* ------------------------------------------------------ program constants
RETRY_STATUS_CODES == {4, 10, 14}
DefaultMaxRetries == 3

\* Status codes the remote service answers with in the model:
\* 0 = OK, 4 = DEADLINE_EXCEEDED, 14 = UNAVAILABLE, 7 = PERMISSION_DENIED.
StatusCodes == {0, 4, 7, 14}

NoNumber == 0 - 1          \* table.maxRetries is not a number
NoStatus == 0 - 1          \* observer: no status delivered yet

VARIABLES
  pc,                          \* "idle" | "running" | "done"
  tableMaxRetries,             \* this.maxRetries
  entries,                     \* flatten(arrify(entries))
  maxRetries,
  numRequestsMade,
  pendingEntryIndices,
  entryToIndex,
  mutationErrorsByEntryIndex,  \* Map in insertion order: Seq of [index, status]
  entryBatch,                  \* entries of the attempt in flight
  streamId,                    \* the stream object of the latest attempt (two names, reused)
  streamOpen,                  \* the attempt's response stream has not ended/failed
  requestEvents,               \* 'request' events of the attempt in flight
  answered,                    \* batch positions that got a status this attempt
  callbackCount,               \* invocations of the caller's callback
  callbackErr,                 \* argument of the last invocation
  \* observer variables (not program state)
  issued,                      \* calls of makeNextBatchRequest, saturating
  batchIdx,                    \* original index of each position of entryBatch
  lastStatus,                  \* last status delivered for each original index
  reachedOk,                   \* original indices that were answered ok
  allOkAt,                     \* attempt at which every index had reported ok
  lastTerminal,                \* how the latest finished attempt finished
  \* Table.createPrefixRange_ (checked under SpecPrefix)
  prefixArg,                   \* the `start` argument, a string of char codes
  probeKey,                    \* observer: a row key compared with the range
  prefixRange,                 \* the returned range
  rangeReady                   \* createPrefixRange_ has returned

prefixVars == <<prefixArg, probeKey, prefixRange, rangeReady>>

VARIABLES
  \* Table.prototype.createReadStream: the request (checked under SpecPlan)
  options,                     \* the caller's options object
  reqOpts,                     \* the request built by the latest call
  readCalls,                   \* calls of createReadStream so far
  optionsAtCall                \* observer: options as the latest call got it

planVars == <<options, reqOpts, readCalls, optionsAtCall>>

VARIABLES
  \* Table.prototype.createReadStream: the row stream (checked under SpecRead)
  readState,                   \* "none", "open", "finished" or "threw"
  streamEnded,                 \* stream._ended
  emitted,                     \* rows pushed downstream, in order
  \* the store's side of the read stream
  srvMode,                     \* "idle", "row" (row in progress) or "reset"
  srvRow,                      \* number of the row last started
  srvData,                     \* cell values sent for it since its last reset
  committed,                   \* observer: the rows the store has committed
  sent,                        \* observer: the chunks sent, in order
  numResponses                 \* observer: response messages delivered

streamVars ==
  <<readState, streamEnded, emitted, srvMode, srvRow, srvData, committed,
    sent, numResponses>>

readSideVars == <<prefixVars, planVars, streamVars>>

VARIABLE
  \* a second, concurrent invocation of mutate on the same table (checked
  \* under SpecTwo): the variables of its closure, as a record
  second

firstCallVars == <<pc, tableMaxRetries, entries, maxRetries, numRequestsMade,
          pendingEntryIndices, entryToIndex, mutationErrorsByEntryIndex,
          entryBatch, streamId, streamOpen, requestEvents, answered, callbackCount,
          callbackErr, issued, batchIdx, lastStatus, reachedOk, allOkAt,
          lastTerminal>>

mutateVars == <<firstCallVars, second>>

vars == <<mutateVars, readSideVars>>

\* ------------------------------------------------------------- helpers
Min(S) == CHOOSE x \in S : \A y \in S : x <= y

Range(s) == {s[i] : i \in 1..Len(s)}

RECURSIVE Ascending(_)
Ascending(S) == IF S = {} THEN <<>>
                ELSE <<Min(S)>> \o Ascending(S \ {Min(S)})

\* Entry objects are named 1..MaxEntries; a sequence is taken up to renaming
\* of the objects (the first new object met is the next unused name).
CanonicalNames(es) ==
  \A i \in 1..Len(es) :
    es[i] <= 1 + Cardinality({es[j] : j \in 1..(i-1)})

EntrySeqs ==
  {es \in UNION {[1..n -> 1..MaxEntries] : n \in 0..MaxEntries} :
     CanonicalNames(es)}

\* new Map(entries.map((entry, index) => [entry, index])): a later pair with
\* the same key replaces the earlier one.
EntryToIndexOf(es) ==
  [e \in Range(es) |-> CHOOSE i \in 1..Len(es) :
      es[i] = e /\ \A j \in 1..Len(es) : es[j] = e => j <= i]

\* Map operations on the insertion-ordered error map.
MapKeys(m) == {m[k].index : k \in 1..Len(m)}

MapHas(m, key) == key \in MapKeys(m)

MapDelete(m, key) == SelectSeq(m, LAMBDA p : p.index # key)

MapSet(m, key, value) ==
  IF MapHas(m, key)
  THEN [k \in 1..Len(m) |->
          IF m[k].index = key THEN [index |-> key, status |-> value] ELSE m[k]]
  ELSE Append(m, [index |-> key, status |-> value])

MapValues(m) == [k \in 1..Len(m) |-> m[k].status]

\* commonGrpc.Service.decorateStatus_(entry.status); status.entry = originalEntry
DecoratedStatus(code, originalEntry) == [code |-> code, entry |-> originalEntry]

\* entries.filter without the pendingEntryIndices test: every entry is sent.
PendingInOrder_All(pending, es) == Ascending(1..Len(es))

\* entries.filter((entry, index) => pendingEntryIndices.has(index))
PendingInOrder(pending, es) == Ascending(pending \cap (1..Len(es)))

EntryBatchOf(pending, es) ==
  LET idx == PendingInOrder(pending, es)
  IN  [k \in 1..Len(idx) |-> es[idx[k]]]

\* The 'data' handler with pendingEntryIndices.add on a retryable status.
ApplyEntryStatus_ReAddsRetryable(st, batch, e2i, entry) ==
  LET originalEntry        == batch[entry.index]
      originalEntriesIndex == e2i[originalEntry]
  IN  IF entry.code = 0
      THEN [pending |-> st.pending \ {originalEntriesIndex},
            errors  |-> MapDelete(st.errors, originalEntriesIndex)]
      ELSE [pending |-> IF entry.code \notin RETRY_STATUS_CODES
                        THEN st.pending \ {originalEntriesIndex}
                        ELSE st.pending \cup {originalEntriesIndex},
            errors  |-> MapSet(st.errors, originalEntriesIndex,
                               DecoratedStatus(entry.code, originalEntry))]

\* One iteration of obj.entries.forEach in the 'data' handler, on the pair
\* st = [pending, errors].
ApplyEntryStatus(st, batch, e2i, entry) ==
  LET originalEntry        == batch[entry.index]
      originalEntriesIndex == e2i[originalEntry]
  IN  IF entry.code = 0
      THEN [pending |-> st.pending \ {originalEntriesIndex},
            errors  |-> MapDelete(st.errors, originalEntriesIndex)]
      ELSE [pending |-> IF entry.code \notin RETRY_STATUS_CODES
                        THEN st.pending \ {originalEntriesIndex}
                        ELSE st.pending,
            errors  |-> MapSet(st.errors, originalEntriesIndex,
                               DecoratedStatus(entry.code, originalEntry))]

RECURSIVE ApplyMessage(_, _, _, _)
ApplyMessage(st, batch, e2i, msg) ==
  IF msg = <<>> THEN st
  ELSE ApplyMessage(ApplyEntryStatus(st, batch, e2i, Head(msg)),
                    batch, e2i, Tail(msg))

\* Observer: the status each original index was last answered with.
RECURSIVE ObserveMessage(_, _, _)
ObserveMessage(ls, idx, msg) ==
  IF msg = <<>> THEN ls
  ELSE ObserveMessage([ls EXCEPT ![idx[Head(msg).index]] = Head(msg).code],
                      idx, Tail(msg))

\* The 'data' messages the service can send now: results for distinct batch
\* positions not yet answered in this attempt, in any order.
Messages ==
  LET open == (1..Len(entryBatch)) \ answered
      E    == [index : open, code : StatusCodes]
  IN  {m \in UNION {[1..n -> E] : n \in 1..MaxMessageLen} :
         \A i, j \in 1..Len(m) : i # j => m[i].index # m[j].index}

NoError == [name |-> "none", errors |-> <<>>]
TransportError == [name |-> "TransportError", errors |-> <<>>]
PartialFailureError(errs) == [name |-> "PartialFailureError", errors |-> errs]
NotCalled == [name |-> "not called", errors |-> <<>>]

Bump(n) == IF n < IssuedCap THEN n + 1 ELSE n

\* ------------------------------------------------ Table.createPrefixRange_
\* Strings are sequences of UTF-16 code units.  Row keys and prefixes are
\* drawn from the byte range 0x00..0xFF; the model takes the lowest code,
\* 'a', 'b', and the two highest codes.
Chars == {0, 97, 98, 254, 255}

Strings == UNION {[1..n -> Chars] : n \in 0..MaxKeyLen}

\* start.replace(new RegExp('[\xff]+$'), '')
RECURSIVE StripTrailingFF(_)
StripTrailingFF(str) ==
  IF str # <<>> /\ str[Len(str)] = 255
  THEN StripTrailingFF(SubSeq(str, 1, Len(str) - 1))
  ELSE str

\* String.fromCharCode(charCode + 1) without the + 1.
NextChar_SameChar(charCode) == charCode % 65536

\* String.fromCharCode(charCode + 1): the argument is taken modulo 2^16.
NextChar(charCode) == (charCode + 1) % 65536

\* createPrefixRange_ without the replace(): trailing 0xFF chars are kept.
createPrefixRange_NoStrip(start) ==
  LET prefix   == start
      position == Len(prefix)
      endKey   == IF prefix # <<>>
                  THEN SubSeq(prefix, 1, position - 1)
                         \o <<NextChar(prefix[position])>>
                  ELSE <<>>
  IN  [start |-> start,
       end   |-> [value |-> endKey, inclusive |-> endKey = <<>>]]

\* createPrefixRange_ whose regular expression lacks the `+`: one trailing
\* 0xFF is removed.
createPrefixRange_StripsOne(start) ==
  LET prefix   == IF start # <<>> /\ start[Len(start)] = 255
                  THEN SubSeq(start, 1, Len(start) - 1) ELSE start
      position == Len(prefix)
      endKey   == IF prefix # <<>>
                  THEN SubSeq(prefix, 1, position - 1)
                         \o <<NextChar(prefix[position])>>
                  ELSE <<>>
  IN  [start |-> start,
       end   |-> [value |-> endKey, inclusive |-> endKey = <<>>]]

\* Table.createPrefixRange_(start); `position` is 1-based here.
createPrefixRange_(start) ==
  LET prefix   == StripTrailingFF(start)
      position == Len(prefix)
      endKey   == IF prefix # <<>>
                  THEN SubSeq(prefix, 1, position - 1)
                         \o <<NextChar(prefix[position])>>
                  ELSE <<>>
  IN  [start |-> start,
       end   |-> [value |-> endKey, inclusive |-> endKey = <<>>]]

NoRange == [start |-> <<>>, end |-> [value |-> <<>>, inclusive |-> TRUE]]

PrefixUnused ==
  /\ prefixArg = <<>>
  /\ probeKey = <<>>
  /\ prefixRange = NoRange
  /\ rangeReady = FALSE

\* ------------------------------------- Table.prototype.createReadStream
\* An optional property of a JavaScript object: absent (undefined) or a
\* value.  Strings and arrays are sequences.
Undefined == [set |-> FALSE, val |-> <<>>]

Value(v) == [set |-> TRUE, val |-> v]

\* if (x) for an optional string: undefined and '' are falsy.
TruthyString(o) == o.set /\ o.val # <<>>

\* A bound of a range object: undefined, a plain string, or an object
\* {value, inclusive}.
UndefinedBound == [kind |-> "undefined", value |-> <<>>, inclusive |-> TRUE]

StringBound(str) == [kind |-> "string", value |-> str, inclusive |-> TRUE]

ObjectBound(v, inc) == [kind |-> "object", value |-> v, inclusive |-> inc]

BoundOf(o) == IF o.set THEN StringBound(o.val) ELSE UndefinedBound

\* The range object createPrefixRange_ returns, as an element of
\* options.ranges.
PrefixRangeObject(prefix) ==
  LET r == createPrefixRange_(prefix)
  IN  [start |-> StringBound(r.start),
       end   |-> ObjectBound(r.end.value, r.end.inclusive)]

\* Filter.createRange(range.start, range.end, 'Key'): both bounds inclusive
\* unless the bound says otherwise; a missing (falsy) bound is unbounded.
FilterCreateRange(start, end) ==
  LET given(b) == b.kind = "object" \/ (b.kind = "string" /\ b.value # <<>>)
  IN  [start          |-> IF given(start) THEN start.value ELSE <<>>,
       startInclusive |-> IF given(start) THEN start.inclusive ELSE TRUE,
       end            |-> IF given(end) THEN end.value ELSE <<>>,
       endInclusive   |-> IF given(end) THEN end.inclusive ELSE TRUE]

\* Mutation.convertToBytes(key)
ConvertToBytes(key) == [bytes |-> key]

\* Lines 951-972 with the prefix range pushed before the start/end range.
CollectRanges_PrefixFirst(o) ==
  LET ranges0 == IF o.ranges.set THEN o.ranges.val ELSE <<>>
      ranges1 == IF TruthyString(o.prefix)
                 THEN Append(ranges0, PrefixRangeObject(o.prefix.val))
                 ELSE ranges0
  IN  IF TruthyString(o.start) \/ TruthyString(o.end)
      THEN Append(ranges1, [start |-> BoundOf(o.start), end |-> BoundOf(o.end)])
      ELSE ranges1

\* Lines 951-972: options.ranges after the defaulting and the two pushes.
CollectRanges(o) ==
  LET ranges0 == IF o.ranges.set THEN o.ranges.val ELSE <<>>
      ranges1 == IF TruthyString(o.start) \/ TruthyString(o.end)
                 THEN Append(ranges0,
                             [start |-> BoundOf(o.start), end |-> BoundOf(o.end)])
                 ELSE ranges0
  IN  IF TruthyString(o.prefix)
      THEN Append(ranges1, PrefixRangeObject(o.prefix.val))
      ELSE ranges1

\* Lines 958-994 with reqOpts.rows always created.
BuildReqOpts_AlwaysRows(o, ranges) ==
  [hasRows      |-> TRUE,
   hasRowKeys   |-> o.keys.set,
   rowKeys      |-> IF o.keys.set
                    THEN [k \in 1..Len(o.keys.val) |->
                            ConvertToBytes(o.keys.val[k])]
                    ELSE <<>>,
   hasRowRanges |-> Len(ranges) # 0,
   rowRanges    |-> [k \in 1..Len(ranges) |->
                       FilterCreateRange(ranges[k].start, ranges[k].end)],
   hasFilter    |-> o.filter,
   hasRowsLimit |-> o.limit # 0,
   rowsLimit    |-> o.limit]

\* Lines 958-994: reqOpts built from the options and options.ranges.
BuildReqOpts(o, ranges) ==
  LET withRows == o.keys.set \/ Len(ranges) # 0
  IN  [hasRows      |-> withRows,
       hasRowKeys   |-> withRows /\ o.keys.set,
       rowKeys      |-> IF withRows /\ o.keys.set
                        THEN [k \in 1..Len(o.keys.val) |->
                                ConvertToBytes(o.keys.val[k])]
                        ELSE <<>>,
       hasRowRanges |-> withRows /\ Len(ranges) # 0,
       rowRanges    |-> [k \in 1..Len(ranges) |->
                           FilterCreateRange(ranges[k].start, ranges[k].end)],
       hasFilter    |-> o.filter,
       hasRowsLimit |-> o.limit # 0,
       rowsLimit    |-> o.limit]

NoRequest ==
  [hasRows |-> FALSE, hasRowKeys |-> FALSE, rowKeys |-> <<>>,
   hasRowRanges |-> FALSE, rowRanges |-> <<>>, hasFilter |-> FALSE,
   hasRowsLimit |-> FALSE, rowsLimit |-> 0]

NoOptions ==
  [keys |-> Undefined, ranges |-> Undefined, start |-> Undefined,
   end |-> Undefined, prefix |-> Undefined, filter |-> FALSE, limit |-> 0]

\* The options objects a caller passes.
SeqsUpTo(S, n) == UNION {[1..m -> S] : m \in 0..n}

CallerRanges ==
  {[start |-> StringBound(<<97>>), end |-> StringBound(<<98>>)],
   [start |-> StringBound(<<98>>), end |-> UndefinedBound]}

CallerOptions ==
  [keys   : {Undefined} \cup {Value(ks) : ks \in SeqsUpTo({<<97>>, <<98>>}, MaxKeys)},
   ranges : {Undefined} \cup {Value(rs) : rs \in SeqsUpTo(CallerRanges, MaxRanges)},
   start  : {Undefined, Value(<<>>), Value(<<97>>)},
   end    : {Undefined, Value(<<>>), Value(<<98>>)},
   prefix : {Undefined, Value(<<>>), Value(<<97>>), Value(<<97, 255>>),
             Value(<<255>>)},
   filter : BOOLEAN,
   limit  : {0, 1}]

PlanUnused ==
  /\ options = NoOptions
  /\ reqOpts = NoRequest
  /\ readCalls = 0
  /\ optionsAtCall = NoOptions

\* ------------------------------------------ createReadStream: row stream
\* A chunk of a response message; rowKey <<>> and value 0 stand for absent.
Chunk(key, value, commit, reset) ==
  [rowKey |-> key, value |-> value, commitRow |-> commit, resetRow |-> reset]

ResetChunk == Chunk(<<>>, 0, FALSE, TRUE)

RowKey(n) == <<96 + n>>

CellValues == 1..MaxCellValue

\* The store's chunk protocol: the first chunk of a row (and the first after
\* a reset) carries the row key, later chunks of the row carry none; a row
\* ends with a commit chunk; a reset chunk restarts the row in progress.
ValidChunks(mode, row) ==
  CASE mode = "idle" ->
         IF row < MaxRows
         THEN {Chunk(RowKey(row + 1), v, c, FALSE) :
                 v \in CellValues, c \in BOOLEAN}
         ELSE {}
    [] mode = "row" ->
         {Chunk(<<>>, v, c, FALSE) : v \in CellValues, c \in BOOLEAN}
           \cup {ResetChunk}
    [] mode = "reset" ->
         {Chunk(RowKey(row), v, c, FALSE) : v \in CellValues, c \in BOOLEAN}

ModeAfter(mode, chunk) ==
  IF chunk.resetRow THEN "reset"
  ELSE IF chunk.commitRow THEN "idle"
  ELSE "row"

RowAfter(mode, row, chunk) == IF mode = "idle" THEN row + 1 ELSE row

RECURSIVE ValidResponses(_, _, _)
\* The response messages of 1..n chunks the store can send next.
ValidResponses(mode, row, n) ==
  IF n = 0 THEN {}
  ELSE UNION {
         {<<c>>} \cup
           {<<c>> \o rest :
              rest \in ValidResponses(ModeAfter(mode, c),
                                      RowAfter(mode, row, c), n - 1)} :
         c \in ValidChunks(mode, row)}

\* What the store has committed after sending chunk c.
DataAfter(data, c) ==
  IF c.resetRow \/ c.commitRow THEN <<>> ELSE Append(data, c.value)

CommittedAfter(rows, row, data, c) ==
  IF c.commitRow
  THEN Append(rows, [key |-> RowKey(row), data |-> Append(data, c.value)])
  ELSE rows

RECURSIVE StoreAfter(_, _)
\* The store's state [mode, row, data, committed] after a response message.
StoreAfter(st, chunks) ==
  IF chunks = <<>> THEN st
  ELSE LET c == Head(chunks)
           row == RowAfter(st.mode, st.row, c)
       IN  StoreAfter([mode      |-> ModeAfter(st.mode, c),
                       row       |-> row,
                       data      |-> DataAfter(st.data, c),
                       committed |-> CommittedAfter(st.committed, row,
                                                    st.data, c)],
                      Tail(chunks))

EmptyRow == [key |-> <<>>, data |-> <<>>]

RECURSIVE FormatFrom(_, _, _)
\* Row.formatChunks_ after some chunks: row is the row in progress, rows the
\* rows completed so far.
FormatFrom(chunks, row, rows) ==
  IF chunks = <<>> THEN rows
  ELSE LET c == Head(chunks)
           withChunk ==
             [key  |-> IF c.rowKey # <<>> THEN c.rowKey ELSE row.key,
              data |-> IF c.value # 0 THEN Append(row.data, c.value)
                       ELSE row.data]
       IN  IF c.resetRow THEN FormatFrom(Tail(chunks), EmptyRow, rows)
           ELSE IF c.commitRow
                THEN FormatFrom(Tail(chunks), EmptyRow, Append(rows, withChunk))
                ELSE FormatFrom(Tail(chunks), withChunk, rows)

\* Row.formatChunks_(data.chunks, options): the rows completed by the chunks
\* of one response message.
FormatChunks(chunks) == FormatFrom(chunks, EmptyRow, <<>>)

\* Lines 1009-1011 without row.data = rowData.data.
MakeRow_NoData(rowData) == [key |-> rowData.key, data |-> <<>>]

\* Lines 1009-1011: var row = self.row(rowData.key); row.data = rowData.data.
MakeRow(rowData) == [key |-> rowData.key, data |-> rowData.data]

RECURSIVE PushRows(_, _, _, _)
\* Lines 1004-1013: rows.forEach over the rows of one response message;
\* self.row throws on a falsy key (line 1532), which leaves the loop.  The
\* consumer's 'data' handler runs inside throughStream.push and may call
\* this.end() there (lines 886-889): it does so on the endAt-th row pushed
\* from now on (0: on none).
PushRows(rows, ended, out, endAt) ==
  IF rows = <<>> THEN [emitted |-> out, threw |-> FALSE, ended |-> ended]
  ELSE IF ended THEN PushRows(Tail(rows), ended, out, endAt)
  ELSE IF Head(rows).key = <<>>
       THEN [emitted |-> out, threw |-> TRUE, ended |-> ended]
  ELSE PushRows(Tail(rows), endAt = 1, Append(out, MakeRow(Head(rows))),
                IF endAt > 0 THEN endAt - 1 ELSE 0)

StreamUnused ==
  /\ readState = "none"
  /\ streamEnded = FALSE
  /\ emitted = <<>>
  /\ srvMode = "idle"
  /\ srvRow = 0
  /\ srvData = <<>>
  /\ committed = <<>>
  /\ sent = <<>>
  /\ numResponses = 0

\* ------------------------------------------------------------- the program
\* The closure of an invocation of mutate that has not been made.
SecondIdle ==
  [pc |-> "idle", entries |-> <<>>, maxRetries |-> 0, numRequestsMade |-> 0,
   pendingEntryIndices |-> {}, entryToIndex |-> <<>>,
   mutationErrorsByEntryIndex |-> <<>>, entryBatch |-> <<>>,
   streamOpen |-> FALSE, requestEvents |-> 0, answered |-> {},
   callbackCount |-> 0, callbackErr |-> NotCalled, issued |-> 0]

Init ==
  /\ pc = "idle"
  /\ tableMaxRetries \in (0..MaxRetriesOption) \cup {NoNumber}
  /\ entries = <<>>
  /\ maxRetries = 0
  /\ numRequestsMade = 0
  /\ pendingEntryIndices = {}
  /\ entryToIndex = <<>>
  /\ mutationErrorsByEntryIndex = <<>>
  /\ entryBatch = <<>>
  /\ streamId = 0
  /\ streamOpen = FALSE
  /\ requestEvents = 0
  /\ answered = {}
  /\ callbackCount = 0
  /\ callbackErr = NotCalled
  /\ issued = 0
  /\ batchIdx = <<>>
  /\ lastStatus = <<>>
  /\ reachedOk = {}
  /\ allOkAt = 0
  /\ lastTerminal = "none"
  /\ second = SecondIdle
  /\ PrefixUnused
  /\ PlanUnused
  /\ StreamUnused

\* makeNextBatchRequest(): the part of the state it sets, given the pending
\* set and the entries it filters.
MakeNextBatchRequest(pending, es) ==
  /\ entryBatch' = EntryBatchOf(pending, es)
  /\ batchIdx' = PendingInOrder(pending, es)
  /\ streamId' = 1 - streamId
  /\ streamOpen' = TRUE
  /\ requestEvents' = 0
  /\ answered' = {}
  /\ issued' = Bump(issued)

\* onBatchResponse without the `return` after makeNextBatchRequest().
OnBatchResponse_NoReturn(err) ==
  IF pendingEntryIndices # {} /\ numRequestsMade <= maxRetries
  THEN /\ MakeNextBatchRequest(pendingEntryIndices, entries)
       /\ callbackErr' =
            IF Len(mutationErrorsByEntryIndex) # 0
            THEN PartialFailureError(MapValues(mutationErrorsByEntryIndex))
            ELSE err
       /\ callbackCount' = callbackCount + 1
       /\ pc' = "done"
  ELSE /\ callbackErr' =
            IF Len(mutationErrorsByEntryIndex) # 0
            THEN PartialFailureError(MapValues(mutationErrorsByEntryIndex))
            ELSE err
       /\ callbackCount' = callbackCount + 1
       /\ pc' = "done"
       /\ streamOpen' = FALSE
       /\ UNCHANGED <<entryBatch, batchIdx, streamId, requestEvents, answered,
                      issued>>

\* onBatchResponse that drops its err argument: callback(null) unless there
\* are per-entry errors.
OnBatchResponse_DropsErr(err) ==
  IF pendingEntryIndices # {} /\ numRequestsMade <= maxRetries
  THEN /\ MakeNextBatchRequest(pendingEntryIndices, entries)
       /\ UNCHANGED <<pc, callbackCount, callbackErr>>
  ELSE /\ callbackErr' =
            IF Len(mutationErrorsByEntryIndex) # 0
            THEN PartialFailureError(MapValues(mutationErrorsByEntryIndex))
            ELSE NoError
       /\ callbackCount' = callbackCount + 1
       /\ pc' = "done"
       /\ streamOpen' = FALSE
       /\ UNCHANGED <<entryBatch, batchIdx, streamId, requestEvents, answered,
                      issued>>

\* onBatchResponse that keeps a transport error in preference to the
\* per-entry errors.
OnBatchResponse_ErrFirst(err) ==
  IF pendingEntryIndices # {} /\ numRequestsMade <= maxRetries
  THEN /\ MakeNextBatchRequest(pendingEntryIndices, entries)
       /\ UNCHANGED <<pc, callbackCount, callbackErr>>
  ELSE /\ callbackErr' =
            IF err # NoError THEN err
            ELSE IF Len(mutationErrorsByEntryIndex) # 0
            THEN PartialFailureError(MapValues(mutationErrorsByEntryIndex))
            ELSE err
       /\ callbackCount' = callbackCount + 1
       /\ pc' = "done"
       /\ streamOpen' = FALSE
       /\ UNCHANGED <<entryBatch, batchIdx, streamId, requestEvents, answered,
                      issued>>

\* onBatchResponse(err), run when the attempt's stream fails or ends.
OnBatchResponse(err) ==
  IF pendingEntryIndices # {} /\ numRequestsMade <= maxRetries
  THEN /\ MakeNextBatchRequest(pendingEntryIndices, entries)
       /\ UNCHANGED <<pc, callbackCount, callbackErr>>
  ELSE /\ callbackErr' =
            IF Len(mutationErrorsByEntryIndex) # 0
            THEN PartialFailureError(MapValues(mutationErrorsByEntryIndex))
            ELSE err
       /\ callbackCount' = callbackCount + 1
       /\ pc' = "done"
       /\ streamOpen' = FALSE
       /\ UNCHANGED <<entryBatch, batchIdx, streamId, requestEvents, answered,
                      issued>>

\* table.mutate(entries, callback)
Mutate(es) ==
  /\ pc = "idle"
  /\ pc' = "running"
  /\ entries' = es
  /\ numRequestsMade' = 0
  /\ maxRetries' = IF tableMaxRetries # NoNumber THEN tableMaxRetries
                   ELSE DefaultMaxRetries
  /\ pendingEntryIndices' = 1..Len(es)
  /\ entryToIndex' = EntryToIndexOf(es)
  /\ mutationErrorsByEntryIndex' = <<>>
  /\ lastStatus' = [i \in 1..Len(es) |-> NoStatus]
  /\ MakeNextBatchRequest(1..Len(es), es)
  /\ UNCHANGED <<tableMaxRetries, callbackCount, callbackErr, reachedOk,
                 allOkAt, lastTerminal>>
  /\ UNCHANGED <<readSideVars, second>>

\* .on('request', () => numRequestsMade++)
OnRequest ==
  /\ streamOpen
  /\ requestEvents < MaxRequestEvents
  /\ numRequestsMade' = numRequestsMade + 1
  /\ requestEvents' = requestEvents + 1
  /\ UNCHANGED <<pc, tableMaxRetries, entries, maxRetries, pendingEntryIndices,
                 entryToIndex, mutationErrorsByEntryIndex, entryBatch,
                 streamId, streamOpen, answered, callbackCount, callbackErr, issued,
                 batchIdx, lastStatus, reachedOk, allOkAt, lastTerminal>>
  /\ UNCHANGED <<readSideVars, second>>

\* .on('data', function(obj) { obj.entries.forEach(...) })
OnData(msg) ==
  /\ streamOpen
  /\ requestEvents >= 1
  /\ LET st == ApplyMessage([pending |-> pendingEntryIndices,
                             errors  |-> mutationErrorsByEntryIndex],
                            entryBatch, entryToIndex, msg)
         ls == ObserveMessage(lastStatus, batchIdx, msg)
         ok == reachedOk \cup {batchIdx[msg[k].index] :
                                 k \in {j \in 1..Len(msg) : msg[j].code = 0}}
     IN  /\ pendingEntryIndices' = st.pending
         /\ mutationErrorsByEntryIndex' = st.errors
         /\ lastStatus' = ls
         /\ reachedOk' = ok
         /\ allOkAt' = IF allOkAt = 0 /\ ok = 1..Len(entries)
                       THEN issued ELSE allOkAt
  /\ answered' = answered \cup {msg[k].index : k \in 1..Len(msg)}
  /\ UNCHANGED <<pc, tableMaxRetries, entries, maxRetries, numRequestsMade,
                 entryToIndex, entryBatch, streamId, streamOpen, requestEvents,
                 callbackCount, callbackErr, issued, batchIdx, lastTerminal>>
  /\ UNCHANGED <<readSideVars, second>>

\* An 'error' handler that gives up the pending entries before it calls
\* onBatchResponse.
OnError_DropsPending ==
  /\ streamOpen
  /\ OnBatchResponse(TransportError)
  /\ lastTerminal' = "error"
  /\ pendingEntryIndices' = {}
  /\ UNCHANGED <<tableMaxRetries, entries, maxRetries, numRequestsMade,
                 entryToIndex, mutationErrorsByEntryIndex, lastStatus,
                 reachedOk, allOkAt>>
  /\ UNCHANGED <<readSideVars, second>>

\* .on('error', onBatchResponse)
OnError ==
  /\ streamOpen
  /\ OnBatchResponse(TransportError)
  /\ lastTerminal' = "error"
  /\ UNCHANGED <<tableMaxRetries, entries, maxRetries, numRequestsMade,
                 pendingEntryIndices, entryToIndex,
                 mutationErrorsByEntryIndex, lastStatus, reachedOk, allOkAt>>
  /\ UNCHANGED <<readSideVars, second>>

\* .on('end', onBatchResponse)
OnEnd ==
  /\ streamOpen
  /\ requestEvents >= 1
  /\ answered = 1..Len(entryBatch)
  /\ OnBatchResponse(NoError)
  /\ lastTerminal' = "end"
  /\ UNCHANGED <<tableMaxRetries, entries, maxRetries, numRequestsMade,
                 pendingEntryIndices, entryToIndex,
                 mutationErrorsByEntryIndex, lastStatus, reachedOk, allOkAt>>
  /\ UNCHANGED <<readSideVars, second>>

MutateCall == \E es \in EntrySeqs : Mutate(es)

DataEvent == \E msg \in Messages : OnData(msg)

Next ==
  \/ MutateCall
  \/ OnRequest
  \/ DataEvent
  \/ OnError
  \/ OnEnd

Spec == Init /\ [][Next]_vars

\* Every attempt's response stream eventually ends or fails.
FairSpec == Spec /\ WF_vars(OnError \/ OnEnd)

\* ------------------------------------- mutate: a second, concurrent call
\* Every variable of mutate is a `var` of the invocation (lines 1446-1451),
\* so a second invocation has its own copy of each; `second` holds that copy.
\* The two invocations share the table (this.maxRetries, read at line 1448)
\* and the entry objects the caller passes.

\* The 'data' messages the service can send on a stream that carries batch
\* and has answered the positions ans.
MessagesOf(batch, ans) ==
  LET open == (1..Len(batch)) \ ans
      E    == [index : open, code : StatusCodes]
  IN  {m \in UNION {[1..n -> E] : n \in 1..MaxMessageLen} :
         \A i, j \in 1..Len(m) : i # j => m[i].index # m[j].index}

\* makeNextBatchRequest() of the invocation with closure r.
SecondNextBatchRequest(r) ==
  [r EXCEPT !.entryBatch = EntryBatchOf(r.pendingEntryIndices, r.entries),
            !.streamOpen = TRUE,
            !.requestEvents = 0,
            !.answered = {},
            !.issued = Bump(r.issued)]

\* onBatchResponse(err) of the invocation with closure r.
SecondOnBatchResponse(r, err) ==
  IF r.pendingEntryIndices # {} /\ r.numRequestsMade <= r.maxRetries
  THEN SecondNextBatchRequest(r)
  ELSE [r EXCEPT !.callbackErr =
                    IF Len(r.mutationErrorsByEntryIndex) # 0
                    THEN PartialFailureError(
                           MapValues(r.mutationErrorsByEntryIndex))
                    ELSE err,
                 !.callbackCount = r.callbackCount + 1,
                 !.pc = "done",
                 !.streamOpen = FALSE]

\* table.mutate(entries, callback), called a second time
Mutate2(es) ==
  /\ second.pc = "idle"
  /\ second' = SecondNextBatchRequest(
       [SecondIdle EXCEPT
          !.pc = "running",
          !.entries = es,
          !.numRequestsMade = 0,
          !.maxRetries = IF tableMaxRetries # NoNumber THEN tableMaxRetries
                         ELSE DefaultMaxRetries,
          !.pendingEntryIndices = 1..Len(es),
          !.entryToIndex = EntryToIndexOf(es),
          !.mutationErrorsByEntryIndex = <<>>])
  /\ UNCHANGED <<firstCallVars, readSideVars>>

\* A 'request' handler that counts on a counter the invocations share.
OnRequest2_SharedCounter ==
  /\ second.streamOpen
  /\ second.requestEvents < MaxRequestEvents
  /\ second' = [second EXCEPT !.requestEvents = second.requestEvents + 1]
  /\ numRequestsMade' = numRequestsMade + 1
  /\ UNCHANGED <<pc, tableMaxRetries, entries, maxRetries, pendingEntryIndices,
                 entryToIndex, mutationErrorsByEntryIndex, entryBatch,
                 streamId, streamOpen, requestEvents, answered, callbackCount,
                 callbackErr, issued, batchIdx, lastStatus, reachedOk, allOkAt,
                 lastTerminal>>
  /\ UNCHANGED readSideVars

\* .on('request', () => numRequestsMade++) of the second invocation
OnRequest2 ==
  /\ second.streamOpen
  /\ second.requestEvents < MaxRequestEvents
  /\ second' = [second EXCEPT
                  !.numRequestsMade = second.numRequestsMade + 1,
                  !.requestEvents = second.requestEvents + 1]
  /\ UNCHANGED <<firstCallVars, readSideVars>>

\* .on('data', ...) of the second invocation
OnData2(msg) ==
  /\ second.streamOpen
  /\ second.requestEvents >= 1
  /\ LET st == ApplyMessage(
                 [pending |-> second.pendingEntryIndices,
                  errors  |-> second.mutationErrorsByEntryIndex],
                 second.entryBatch, second.entryToIndex, msg)
     IN  second' = [second EXCEPT
                      !.pendingEntryIndices = st.pending,
                      !.mutationErrorsByEntryIndex = st.errors,
                      !.answered = second.answered \cup
                                     {msg[k].index : k \in 1..Len(msg)}]
  /\ UNCHANGED <<firstCallVars, readSideVars>>

\* .on('error', onBatchResponse) of the second invocation
OnError2 ==
  /\ second.streamOpen
  /\ second' = SecondOnBatchResponse(second, TransportError)
  /\ UNCHANGED <<firstCallVars, readSideVars>>

\* .on('end', onBatchResponse) of the second invocation
OnEnd2 ==
  /\ second.streamOpen
  /\ second.requestEvents >= 1
  /\ second.answered = 1..Len(second.entryBatch)
  /\ second' = SecondOnBatchResponse(second, NoError)
  /\ UNCHANGED <<firstCallVars, readSideVars>>

\* The entries of the two calls: the second call passes one of the objects
\* the first call passes.
FirstEntries == <<1, 2>>

SecondEntries == {<<2>>, <<2, 1>>}

\* A table with maxRetries set, on which mutate is called twice.
InitTwo == Init /\ tableMaxRetries = 0

FirstCall == Mutate(FirstEntries)

SecondCall == \E es \in SecondEntries : Mutate2(es)

DataEvent2 ==
  \E msg \in MessagesOf(second.entryBatch, second.answered) : OnData2(msg)

NextTwo ==
  \/ FirstCall
  \/ OnRequest
  \/ DataEvent
  \/ OnError
  \/ OnEnd
  \/ SecondCall
  \/ OnRequest2
  \/ DataEvent2
  \/ OnError2
  \/ OnEnd2

SpecTwo == InitTwo /\ [][NextTwo]_vars

\* The state of a table on which mutate is never called.
MutateUnused ==
  /\ pc = "idle"
  /\ tableMaxRetries = NoNumber
  /\ entries = <<>>
  /\ maxRetries = 0
  /\ numRequestsMade = 0
  /\ pendingEntryIndices = {}
  /\ entryToIndex = <<>>
  /\ mutationErrorsByEntryIndex = <<>>
  /\ entryBatch = <<>>
  /\ streamId = 0
  /\ streamOpen = FALSE
  /\ requestEvents = 0
  /\ answered = {}
  /\ callbackCount = 0
  /\ callbackErr = NotCalled
  /\ issued = 0
  /\ batchIdx = <<>>
  /\ lastStatus = <<>>
  /\ reachedOk = {}
  /\ allOkAt = 0
  /\ lastTerminal = "none"
  /\ second = SecondIdle

\* Table.createPrefixRange_ applied to every prefix, next to every key.
InitPrefix ==
  /\ MutateUnused
  /\ PlanUnused
  /\ StreamUnused
  /\ prefixArg \in Strings
  /\ probeKey \in Strings
  /\ prefixRange = NoRange
  /\ rangeReady = FALSE

CallCreatePrefixRange ==
  /\ ~rangeReady
  /\ prefixRange' = createPrefixRange_(prefixArg)
  /\ rangeReady' = TRUE
  /\ UNCHANGED <<prefixArg, probeKey, mutateVars, planVars, streamVars>>

NextPrefix == CallCreatePrefixRange

SpecPrefix == InitPrefix /\ [][NextPrefix]_vars

\* table.createReadStream(options) for every options object, called again
\* with the same object.
InitPlan ==
  /\ MutateUnused
  /\ PrefixUnused
  /\ StreamUnused
  /\ options \in CallerOptions
  /\ reqOpts = NoRequest
  /\ readCalls = 0
  /\ optionsAtCall = NoOptions

\* Table.prototype.createReadStream: the request, and a new stream.
CreateReadStream ==
  /\ readCalls < MaxReadCalls
  /\ LET ranges == CollectRanges(options)
     IN  /\ options' = [options EXCEPT !.ranges = Value(ranges)]
         /\ reqOpts' = BuildReqOpts(options, ranges)
  /\ optionsAtCall' = options
  /\ readCalls' = readCalls + 1
  /\ readState' = "open"
  /\ streamEnded' = FALSE
  /\ emitted' = <<>>
  /\ srvMode' = "idle"
  /\ srvRow' = 0
  /\ srvData' = <<>>
  /\ committed' = <<>>
  /\ sent' = <<>>
  /\ numResponses' = 0
  /\ UNCHANGED <<mutateVars, prefixVars>>

NextPlan == CreateReadStream

SpecPlan == InitPlan /\ [][NextPlan]_vars

\* One read stream: the store sends response messages, the consumer may end
\* the stream, the store's stream ends.
InitRead ==
  /\ MutateUnused
  /\ PrefixUnused
  /\ PlanUnused
  /\ StreamUnused

\* Lines 998-1016: the through.obj transform, for one response message.
OnReadData(chunks, endAt) ==
  /\ readState = "open"
  /\ LET st == StoreAfter([mode |-> srvMode, row |-> srvRow, data |-> srvData,
                           committed |-> committed], chunks)
         pushed == PushRows(FormatChunks(chunks), streamEnded, emitted, endAt)
     IN  /\ srvMode' = st.mode
         /\ srvRow' = st.row
         /\ srvData' = st.data
         /\ committed' = st.committed
         /\ emitted' = pushed.emitted
         /\ readState' = IF pushed.threw THEN "threw" ELSE "open"
         /\ streamEnded' = pushed.ended
  /\ sent' = sent \o chunks
  /\ numResponses' = numResponses + 1
  /\ UNCHANGED <<mutateVars, prefixVars, planVars>>

ReadDataEvent ==
  \E chunks \in ValidResponses(srvMode, srvRow,
                               Min({MaxChunksPerResponse, MaxChunks - Len(sent)})) :
    \E endAt \in 0..Len(FormatChunks(chunks)) :
      OnReadData(chunks, endAt)

\* The consumer calls stream.end() outside a 'data' handler: duplexify sets
\* stream._ended and ends the writable side; the request stream keeps
\* delivering responses.
ConsumerEnd ==
  /\ readState = "open"
  /\ ~streamEnded
  /\ streamEnded' = TRUE
  /\ UNCHANGED <<readState, emitted, srvMode, srvRow, srvData, committed,
                 sent, numResponses, mutateVars, prefixVars, planVars>>

\* The request stream ends; pumpify ends the row stream.
OnReadEnd ==
  /\ readState = "open"
  /\ readState' = "finished"
  /\ UNCHANGED <<streamEnded, emitted, srvMode, srvRow, srvData, committed,
                 sent, numResponses, mutateVars, prefixVars, planVars>>

NextRead == CreateReadStream \/ ReadDataEvent \/ ConsumerEnd \/ OnReadEnd

SpecRead == InitRead /\ [][NextRead]_vars

TypeOK ==
  /\ pc \in {"idle", "running", "done"}
  /\ pendingEntryIndices \subseteq 1..Len(entries)
  /\ numRequestsMade \in Nat
  /\ callbackCount \in Nat
  /\ issued \in 0..IssuedCap

\* ---------------------------------------------------------------- claims
Called == pc # "idle"

Done == pc = "done"

AllIndices == 1..Len(entries)

\* Entries that never reached ok, with the item the report would carry for
\* each: its last observed status and the original entry, in index order.
NeverOk == AllIndices \ reachedOk

ItemsFor(S) ==
  LET idx == Ascending(S)
  IN  [k \in 1..Len(idx) |-> DecoratedStatus(lastStatus[idx[k]], entries[idx[k]])]

SameItems(s, t) ==
  /\ Len(s) = Len(t)
  /\ \E p \in [1..Len(s) -> 1..Len(s)] :
       /\ \A i, j \in 1..Len(s) : i # j => p[i] # p[j]
       /\ \A i \in 1..Len(s) : s[i] = t[p[i]]

\* C1: one mutate call issues at most maxRetries + 1 batch requests,
\* whatever statuses or transport failures the attempts return.
C1_AtMostMaxRetriesPlusOneAttempts ==
  Called => issued <= maxRetries + 1

C3_EventuallyCalledBack ==
  Called ~> Done

\* C4: with maxRetries = 0 exactly one attempt is made, and the failure list
\* is exactly the entries whose status in that attempt was not ok.
C4_NoRetryWhenMaxRetriesZero ==
  (Called /\ maxRetries = 0) =>
    /\ issued = 1
    /\ Done => SameItems(callbackErr.errors,
                         ItemsFor({i \in AllIndices :
                                     lastStatus[i] \notin {0, NoStatus}}))

\* C5: a retryable status leaves the entry's index pending and records its
\* error; any other non-ok status removes the index from the pending set
\* and records its error.
C5_OnlyRetryableStaysPending ==
  Called =>
    \A i \in AllIndices :
      /\ lastStatus[i] \in RETRY_STATUS_CODES =>
           /\ i \in pendingEntryIndices
           /\ \E k \in 1..Len(mutationErrorsByEntryIndex) :
                /\ mutationErrorsByEntryIndex[k].index = i
                /\ mutationErrorsByEntryIndex[k].status.code = lastStatus[i]
      /\ lastStatus[i] \notin RETRY_STATUS_CODES \cup {0, NoStatus} =>
           /\ i \notin pendingEntryIndices
           /\ \E k \in 1..Len(mutationErrorsByEntryIndex) :
                /\ mutationErrorsByEntryIndex[k].index = i
                /\ mutationErrorsByEntryIndex[k].status.code = lastStatus[i]

\* C6: a status ok removes the entry's index from the pending set and clears
\* the error recorded for it, so the entry is not in the final outcome.
C6_OkClearsPendingAndError ==
  Called =>
    /\ \A i \in reachedOk :
         /\ i \notin pendingEntryIndices
         /\ ~MapHas(mutationErrorsByEntryIndex, i)
    /\ Done => Len(callbackErr.errors) <= Cardinality(NeverOk)

\* C7: at termination the error list of a partial failure has exactly one
\* item for every entry that never reached ok and none for an entry that
\* did; each item carries the entry's last observed status and the original
\* entry.
C7_ErrorListIsExactlyNeverOk ==
  (Done /\ callbackErr.name = "PartialFailureError") =>
    SameItems(callbackErr.errors, ItemsFor(NeverOk))

\* C8: the items of the error list are in original-index order.
C8_ErrorListInIndexOrder ==
  Done =>
    \A k, l \in 1..Len(mutationErrorsByEntryIndex) :
      k < l => mutationErrorsByEntryIndex[k].index
                 < mutationErrorsByEntryIndex[l].index

C10_SucceedsAfterExactlyKAttempts ==
  (Done /\ allOkAt >= 1 /\ allOkAt <= maxRetries) =>
    /\ callbackErr = NoError
    /\ issued = allOkAt

\* C11: mutate called with an empty entry sequence yields immediate success
\* and issues no remote batch request.
C11_EmptyEntriesNoRequest ==
  (Called /\ Len(entries) = 0) =>
    /\ issued = 0
    /\ Done
    /\ callbackErr = NoError

\* C12: entry identity is positional: an index leaves the pending set, or
\* has an error recorded under it, only through a status delivered for its
\* own position, and once every position was answered ok nothing is pending.
C12_PositionalIdentity ==
  Called =>
    /\ \A i \in AllIndices :
         /\ i \notin pendingEntryIndices =>
              lastStatus[i] \notin RETRY_STATUS_CODES \cup {NoStatus}
         /\ MapHas(mutationErrorsByEntryIndex, i) =>
              lastStatus[i] \notin {0, NoStatus}
    /\ reachedOk = AllIndices => pendingEntryIndices = {}

\* ------------------------------------------------- claims on prefix ranges
AllFF(str) == \A i \in 1..Len(str) : str[i] = 255

LastNonFF(str) ==
  CHOOSE n \in 1..Len(str) :
    str[n] # 255 /\ \A m \in (n+1)..Len(str) : str[m] = 255

\* The prefix cut after its last non-0xFF byte, that byte incremented.
SuccessorOf(str) ==
  [i \in 1..LastNonFF(str) |->
     IF i = LastNonFF(str) THEN str[i] + 1 ELSE str[i]]

BeginsWith(key, pre) ==
  /\ Len(pre) <= Len(key)
  /\ \A j \in 1..Len(pre) : key[j] = pre[j]

\* Lexicographic order on strings, code unit by code unit.
LexLess(a, b) ==
  \/ Len(a) < Len(b) /\ \A j \in 1..Len(a) : a[j] = b[j]
  \/ \E i \in 1..Len(a) :
       /\ i <= Len(b)
       /\ a[i] < b[i]
       /\ \A j \in 1..(i-1) : a[j] = b[j]

LexLeq(a, b) == a = b \/ LexLess(a, b)

\* key lies in the range: start <= key, and key below (or at, when
\* inclusive) the end when the end is bounded.
InRange(key, range) ==
  /\ LexLeq(range.start, key)
  /\ \/ range.end.value = <<>>
     \/ IF range.end.inclusive THEN LexLeq(key, range.end.value)
        ELSE LexLess(key, range.end.value)

\* C13: for a prefix p that is not all 0xFF, the range has start = p and an
\* exclusive end equal to p without its trailing 0xFF bytes and with the last
\* remaining byte incremented by one ("a" gives end "b").
C13_PrefixRangeSuccessor ==
  (rangeReady /\ ~AllFF(prefixArg)) =>
    /\ prefixRange.start = prefixArg
    /\ prefixRange.end.value = SuccessorOf(prefixArg)
    /\ prefixRange.end.inclusive = FALSE
    /\ (prefixArg = <<97>> => prefixRange.end.value = <<98>>)

C13_Witness ==
  /\ rangeReady
  /\ prefixArg = <<97, 254>>
  /\ prefixRange.end.value = <<97, 255>>
  /\ ~prefixRange.end.inclusive

\* C14: for a prefix that is empty or all 0xFF the range keeps start = prefix
\* and has an unbounded end: empty end value, marked inclusive.
C14_AllFFPrefixUnbounded ==
  (rangeReady /\ AllFF(prefixArg)) =>
    /\ prefixRange.start = prefixArg
    /\ prefixRange.end.value = <<>>
    /\ prefixRange.end.inclusive = TRUE

C14_Witness ==
  /\ rangeReady
  /\ prefixArg = <<255, 255>>
  /\ prefixRange.end.value = <<>>

\* C15 (as stated): the prefix "a" followed by one 0xFF byte yields
\* start = "a"+0xFF and an unbounded end.
C15_Original_UnboundedEnd ==
  (rangeReady /\ prefixArg = <<97, 255>>) =>
    /\ prefixRange.start = <<97, 255>>
    /\ prefixRange.end.value = <<>>

\* C15 (amended): the prefix "a" followed by one 0xFF byte yields
\* start = "a"+0xFF and the exclusive end "b".
C15_TrailingFFEndsAtB ==
  (rangeReady /\ prefixArg = <<97, 255>>) =>
    /\ prefixRange.start = <<97, 255>>
    /\ prefixRange.end = [value |-> <<98>>, inclusive |-> FALSE]

C15_Witness ==
  /\ rangeReady
  /\ prefixArg = <<97, 255>>
  /\ prefixRange.end.value # <<>>

\* C16: a key lies in the range returned for a prefix if and only if the key
\* begins with the prefix, under bytewise lexicographic order.
C16_RangeIsExactlyThePrefixedKeys ==
  rangeReady => (InRange(probeKey, prefixRange) <=> BeginsWith(probeKey, prefixArg))

C16_Witness ==
  /\ rangeReady
  /\ prefixArg = <<97, 255>>
  /\ probeKey = <<97, 255>>
  /\ InRange(probeKey, prefixRange)


\* ------------------------------------------------- createReadStream claims
\* A start, end or prefix is given when it holds a non-empty string.
Given(o) == o.set /\ o.val # <<>>

SuppliedRanges(o) == IF o.ranges.set THEN o.ranges.val ELSE <<>>

SuppliedKeys(o) == IF o.keys.set THEN o.keys.val ELSE <<>>

\* One range per input of the specification o, in the claimed order.
ExpectedRanges(o) ==
  SuppliedRanges(o)
    \o (IF Given(o.start) \/ Given(o.end)
        THEN <<[start |-> BoundOf(o.start), end |-> BoundOf(o.end)]>>
        ELSE <<>>)
    \o (IF Given(o.prefix) THEN <<PrefixRangeObject(o.prefix.val)>> ELSE <<>>)

RowRangesOf(r) == IF r.hasRows /\ r.hasRowRanges THEN r.rowRanges ELSE <<>>

RowKeysOf(r) == IF r.hasRows /\ r.hasRowKeys THEN r.rowKeys ELSE <<>>

\* C17: the request built from a read specification carries as rowRanges
\* one range per input and nothing else: every supplied range, then one for
\* start/end when either is given, then one derived from prefix when given,
\* in that order, duplicates kept; rowKeys holds exactly the supplied keys.
C17_RangesAndKeysTranslatedInOrder ==
  readCalls > 0 =>
    LET expected == ExpectedRanges(optionsAtCall)
        keys == SuppliedKeys(optionsAtCall)
    IN  /\ RowRangesOf(reqOpts) =
             [k \in 1..Len(expected) |->
                FilterCreateRange(expected[k].start, expected[k].end)]
        /\ RowKeysOf(reqOpts) =
             [k \in 1..Len(keys) |-> ConvertToBytes(keys[k])]

\* Two equal supplied ranges, a start and a prefix: four ranges requested.
C17_Witness ==
  /\ readCalls > 0
  /\ optionsAtCall.ranges.set
  /\ Len(optionsAtCall.ranges.val) = 2
  /\ optionsAtCall.ranges.val[1] = optionsAtCall.ranges.val[2]
  /\ Given(optionsAtCall.start)
  /\ Given(optionsAtCall.prefix)
  /\ Len(SuppliedKeys(optionsAtCall)) = 2
  /\ Len(RowRangesOf(reqOpts)) = 4

EmptySpec(o) ==
  /\ SuppliedKeys(o) = <<>>
  /\ SuppliedRanges(o) = <<>>
  /\ ~Given(o.start)
  /\ ~Given(o.end)
  /\ ~Given(o.prefix)

\* C18: a read specification with no keys, no ranges, no start, no end and
\* no prefix yields a request carrying no row key and no row range; when
\* the keys are absent the request has no rows field at all.
C18_EmptySpecIsFullScan ==
  (readCalls > 0 /\ EmptySpec(optionsAtCall)) =>
    /\ RowKeysOf(reqOpts) = <<>>
    /\ RowRangesOf(reqOpts) = <<>>
    /\ ~optionsAtCall.keys.set => ~reqOpts.hasRows

C18_Witness ==
  /\ readCalls > 0
  /\ EmptySpec(optionsAtCall)
  /\ ~optionsAtCall.keys.set
  /\ ~reqOpts.hasRows

\* The rows emitted so far that carry the key of committed row r.
EmittedFor(r) == {j \in 1..Len(emitted) : emitted[j].key = r.key}

\* C19: while the consumer has not ended the stream, every row the store has
\* committed has been emitted exactly once, holding the data of all its
\* chunks in arrival order, however its chunks were spread over messages.
C19_CommittedRowEmittedOnceWithAllData ==
  ~streamEnded =>
    \A i \in 1..Len(committed) :
      /\ Cardinality(EmittedFor(committed[i])) = 1
      /\ \A j \in EmittedFor(committed[i]) :
           emitted[j].data = committed[i].data

\* chunks [key=K1,data], [reset], [key=K1,data2,commit]
ResetExample ==
  <<Chunk(RowKey(1), 1, FALSE, FALSE), ResetChunk,
    Chunk(RowKey(1), 2, TRUE, FALSE)>>

\* C20: a reset discards the data accumulated for the row in progress: an
\* emitted row holds only the data sent for it since its last reset, and the
\* chunks of ResetExample, in any split into response messages, yield
\* exactly one row, for K1, holding only data2.
C20_ResetDiscardsAccumulatedData ==
  /\ \A j \in 1..Len(emitted) :
       \E i \in 1..Len(committed) :
         /\ emitted[j].key = committed[i].key
         /\ emitted[j].data = committed[i].data
  /\ (sent = ResetExample /\ ~streamEnded) =>
       emitted = <<[key |-> RowKey(1), data |-> <<2>>]>>

\* The example, delivered in three response messages.
C20_Witness ==
  /\ sent = ResetExample
  /\ numResponses = 3
  /\ ~streamEnded
  /\ emitted = <<[key |-> RowKey(1), data |-> <<2>>]>>

\* C21: the row stream ends normally only when the chunk stream ended with
\* no row in progress; a chunk stream that ends inside a row makes the read
\* fail instead, and the partial row is not emitted.
C21_NoNormalEndInsideARow ==
  readState = "finished" =>
    /\ srvMode = "idle"
    /\ \A j \in 1..Len(emitted) :
         \E i \in 1..Len(committed) : emitted[j].key = committed[i].key

\* C22: once the consumer has ended the stream, no further row is pushed
\* downstream and no further response message is taken from the request
\* stream (the chunk source is closed).
C22_NothingAfterConsumerEnd ==
  [][(streamEnded /\ readCalls' = readCalls) =>
       (emitted' = emitted /\ numResponses' = numResponses)]_vars

\* The part of C22 about rows alone: nothing is pushed after the end.
NoRowAfterConsumerEnd ==
  [][(streamEnded /\ readCalls' = readCalls) => emitted' = emitted]_vars

\* C23: while the consumer has not ended the stream, the rows emitted are
\* the rows the store committed, in the store's order, none dropped,
\* duplicated or reordered, across response messages as within one.
C23_EmittedInCommitOrder ==
  ~streamEnded => emitted = committed

\* ------------------------------------------- mutate: bookkeeping claims
\* A step that issues a batch request.
IssueStep == streamId' # streamId

\* A step in which the attempt in flight ends or fails, so that
\* onBatchResponse evaluates the termination condition.
TerminalStep == streamOpen /\ (streamId' # streamId \/ ~streamOpen')

ErrorStep == TerminalStep /\ lastTerminal' = "error"

\* The original indices of the batch in flight, by position in entries.
InBatch == {batchIdx[k] : k \in 1..Len(batchIdx)}

\* C24: during a mutate call the pending set only shrinks, and a batch that
\* is issued holds no index that has left the pending set.
C24_PendingOnlyShrinks ==
  [][pc = "running" =>
       /\ pendingEntryIndices' \subseteq pendingEntryIndices
       /\ IssueStep =>
            /\ Len(entryBatch') <= Len(entryBatch)
            /\ {batchIdx'[k] : k \in 1..Len(batchIdx')} \subseteq
                 pendingEntryIndices]_vars

\* A second batch without the index that left the pending set.
C24_Witness ==
  /\ pc = "running"
  /\ Len(entries) = 2
  /\ issued = 2
  /\ pendingEntryIndices = {2}
  /\ InBatch = {2}

\* C25: a batch request holds exactly the entries whose index is pending
\* when it is issued, in their original relative order.
C25_BatchIsPendingInOrder ==
  [][IssueStep =>
       LET n == Len(entryBatch')
       IN  /\ n = Cardinality(pendingEntryIndices')
           /\ \E f \in [1..n -> pendingEntryIndices'] :
                /\ \A a, b \in 1..n : a < b => f[a] < f[b]
                /\ \A a \in 1..n : entryBatch'[a] = entries'[f[a]]]_vars

\* A retry batch that holds the second of two distinct entries only.
C25_Witness ==
  /\ pc = "running"
  /\ Len(entries) = 2
  /\ entries[1] # entries[2]
  /\ issued = 2
  /\ pendingEntryIndices = {2}
  /\ entryBatch = <<entries[2]>>

\* The error recorded under index i, or NoStatus.
RecordedCode(m, i) ==
  IF MapHas(m, i)
  THEN (CHOOSE p \in Range(m) : p.index = i).status.code
  ELSE NoStatus

\* C26: a 'data' event changes the bookkeeping (pending membership, recorded
\* error) only of the original indices of the entries at the batch
\* positions it carries a status for.
C26_StatusAppliedToOriginalIndex ==
  [][(pc = "running" /\ pc' = "running" /\ ~IssueStep) =>
       LET addressed == {batchIdx[q] : q \in answered' \ answered}
       IN  \A i \in AllIndices :
             (\/ (i \in pendingEntryIndices) # (i \in pendingEntryIndices')
              \/ RecordedCode(mutationErrorsByEntryIndex, i) #
                   RecordedCode(mutationErrorsByEntryIndex', i))
               => i \in addressed]_vars

StillPending(i) == i \in pendingEntryIndices

ResolvedSuccess(i) == i \notin pendingEntryIndices /\ lastStatus[i] = 0

ResolvedFailure(i) ==
  /\ i \notin pendingEntryIndices
  /\ lastStatus[i] \notin RETRY_STATUS_CODES \cup {0, NoStatus}

\* C27: every index is pending, resolved with success or resolved with
\* failure, exactly one of the three; an index that is not pending got an
\* explicit ok or an explicit non-retryable status of its own.
C27_PendingOrResolved ==
  Called =>
    \A i \in AllIndices :
      /\ StillPending(i) \/ ResolvedSuccess(i) \/ ResolvedFailure(i)
      /\ ~(ResolvedSuccess(i) /\ ResolvedFailure(i))
      /\ StillPending(i) => ~(ResolvedSuccess(i) \/ ResolvedFailure(i))

\* C28: a transport failure of a batch call leaves the pending set and the
\* recorded errors as they are and only evaluates the termination
\* condition: the next attempt if entries are pending and the budget is not
\* spent, else the outcome.
C28_TransportFailureFrame ==
  [][ErrorStep =>
       /\ pendingEntryIndices' = pendingEntryIndices
       /\ mutationErrorsByEntryIndex' = mutationErrorsByEntryIndex
       /\ IF pendingEntryIndices # {} /\ numRequestsMade <= maxRetries
          THEN IssueStep /\ pc' = "running" /\ callbackCount' = callbackCount
          ELSE ~IssueStep /\ pc' = "done"
               /\ callbackCount' = callbackCount + 1]_vars

\* A transport failure, after a recorded retryable error, followed by a retry.
C28_Witness ==
  /\ pc = "running"
  /\ lastTerminal = "error"
  /\ issued = 2
  /\ answered = {}
  /\ Len(mutationErrorsByEntryIndex) = 1
  /\ pendingEntryIndices # {}

\* C29: a batch request is issued only by mutate itself or when the attempt
\* in flight ends or fails; statuses are processed only for positions of
\* the attempt in flight, and nothing is in flight once the call is over.
C29_OneAttemptInFlight ==
  [][/\ IssueStep => (pc = "idle" \/ TerminalStep)
     /\ answered' # answered =>
          (IssueStep \/ (streamOpen /\ streamOpen' /\
                         answered' \subseteq 1..Len(entryBatch)))
     /\ streamOpen' => pc' = "running"]_vars

\* A second attempt in flight with a status processed.
C29_Witness ==
  /\ pc = "running"
  /\ issued = 2
  /\ streamOpen
  /\ answered # {}
  /\ lastTerminal = "end"

\* C30: whenever the termination condition is evaluated, the attempt
\* counter equals the number of batch requests issued so far.
C30_AttemptCounterCountsAttempts ==
  [][(TerminalStep /\ issued < IssuedCap) => numRequestsMade = issued]_vars

\* C32: when the call terminates on an attempt that failed with a transport
\* error, the caller gets the aggregated PartialFailureError, and not the
\* transport error, if a per-entry error is recorded; it gets the transport
\* error only if none is recorded.
C32_PartialFailureHidesTransportError ==
  (Done /\ lastTerminal = "error") =>
    /\ Len(mutationErrorsByEntryIndex) # 0 =>
         /\ callbackErr.name = "PartialFailureError"
         /\ callbackErr.errors = MapValues(mutationErrorsByEntryIndex)
    /\ callbackErr = TransportError <=> Len(mutationErrorsByEntryIndex) = 0

\* Terminated on a transport error with an error recorded for an entry.
C32_Witness ==
  /\ Done
  /\ lastTerminal = "error"
  /\ Len(mutationErrorsByEntryIndex) = 1
  /\ callbackErr.name = "PartialFailureError"

\* C33: a call of createReadStream leaves the ranges of the caller's
\* specification as they were, and a further call with the same
\* specification object requests the same rowRanges as the call before.
C33_SpecificationUnchanged ==
  [][readCalls' = readCalls + 1 =>
       /\ SuppliedRanges(options') = SuppliedRanges(options)
       /\ readCalls >= 1 => RowRangesOf(reqOpts') = RowRangesOf(reqOpts)]_vars

\* The bookkeeping, attempts and outcome of the first invocation.
FirstBookkeeping ==
  <<pc, entries, maxRetries, numRequestsMade, pendingEntryIndices,
    entryToIndex, mutationErrorsByEntryIndex, entryBatch, streamOpen,
    requestEvents, answered, issued, callbackCount, callbackErr>>

\* C31: with two invocations of mutate running at once, their attempts and
\* events interleaved and one entry object passed to both, no step changes
\* the bookkeeping (pending indices, per-index errors, requests made), the
\* number of attempts or the outcome of both invocations: a step of one
\* invocation leaves everything of the other as it was.
C31_InvocationsIndependent ==
  [][~(second' # second /\ FirstBookkeeping' # FirstBookkeeping)]_vars

\* Both invocations are running over the shared entry object, each has
\* received statuses, and their bookkeeping differs.
C31_Witness ==
  /\ pc = "running"
  /\ second.pc = "running"
  /\ 2 \in Range(entries) \cap Range(second.entries)
  /\ answered # {}
  /\ second.answered # {}
  /\ Len(mutationErrorsByEntryIndex) = 1
  /\ second.mutationErrorsByEntryIndex = <<>>
  /\ numRequestsMade # second.numRequestsMade
  /\ pendingEntryIndices # second.pendingEntryIndices
====
